---------------------------- MODULE Spec2Model ----------------------------
(***************************************************************************)
(* Model of the configuration export action (src/unnamed/part_000).        *)
(*                                                                         *)
(* One host job: the main process runs run(), the post process runs        *)
(* cleanup().  run() acquires the source tree at the pull request base,    *)
(* validates the ancestry, initialises the mirror repository, exports the  *)
(* base and then every revision listed by getCommitList.                   *)
(*                                                                         *)
(* Every awaited subprocess or library call is one action.  A call may     *)
(* fail for an environmental reason (network, disk, missing tool): that    *)
(* is the "env" outcome, which throws an Error or some other value.  A     *)
(* call fails for a semantic reason ("sem") where git's documented         *)
(* behaviour forces it: a pathspec that matches nothing, nothing to        *)
(* commit, an empty revision name.                                         *)
(*                                                                         *)
(* The clear step is modelled by the meaning of its flags (remove every    *)
(* tracked file, recursively, forced).  git rm spells the recursive flag   *)
(* -r and rejects the long spelling --recursive that the source passes;    *)
(* the model is therefore an over-approximation of the clear step: it      *)
(* allows the step to succeed where tracked files exist.                   *)
(***************************************************************************)
EXTENDS Integers, Sequences, FiniteSets, TLC

\* ------------------------------------------------------------------ bounds

\* Number of revisions on the main first-parent chain 1..ChainLen.
ChainLen == 3

\* ------------------------------------------------------- revisions, graph

\* The empty string: a falsy sha in the pull request context, and the single
\* entry that splitting an empty output yields.
EmptySha == 0

\* A side branch forked from revision 1, and a merge of it into the chain tip.
Side == ChainLen + 1

Merge == ChainLen + 2

Revs == 1..Merge

\* Parents of a revision, first parent first.
Parents(c) ==
  IF c = 1 THEN <<>>
  ELSE IF c <= ChainLen THEN <<c - 1>>
  ELSE IF c = Side THEN <<1>>
  ELSE <<ChainLen, Side>>

ParentSet(c) == {Parents(c)[i] : i \in 1..Len(Parents(c))}

\* All ancestors of c through every parent, c included.
RECURSIVE Ancestors(_)
Ancestors(c) == {c} \cup UNION {Ancestors(p) : p \in ParentSet(c)}

\* The first-parent chain ending at c, oldest first, c included.
RECURSIVE FirstParentChain(_)
FirstParentChain(c) ==
  IF Parents(c) = <<>> THEN <<c>>
  ELSE Append(FirstParentChain(Parents(c)[1]), c)

\* git merge-base a b: the best common ancestor through every parent.
GitMergeBase(a, b) ==
  LET common == Ancestors(a) \cap Ancestors(b)
  IN CHOOSE x \in common : \A y \in common : y \in Ancestors(x)

\* git rev-list --reverse --first-parent base...head, for a base that is an
\* ancestor of head: the first-parent chain of head without what base reaches.
GitRevList(b, h) ==
  LET Keep(c) == c \notin Ancestors(b)
  IN SelectSeq(FirstParentChain(h), Keep)

\* output.stdout.trim().split('\n'): an empty output splits into one empty
\* string, any other output into its lines.
SplitLines(lines) == IF lines = <<>> THEN <<EmptySha>> ELSE lines

\* getCommitList's result for (base, head).
CommitListOf(b, h) == SplitLines(GitRevList(b, h))

\* --------------------------------------------------------------- files

\* A file is <<name, content>>; a tree is a set of files with distinct names.
Names(tree) == {f[1] : f \in tree}

\* Writing files into a working tree replaces files of the same name.
WriteFiles(wt, out) == {f \in wt : f[1] \notin Names(out)} \cup out

\* ------------------------------------------------------------------ state

VARIABLES
  prPresent,     \* github.context.payload.pull_request is set
  merged,        \* pr_context.merged
  base,          \* pr_context.base.sha (EmptySha when unset)
  head,          \* pr_context.head.sha (EmptySha when unset)
  mirror0,       \* what the mirror path held when the job started
  phase,         \* the host's step: "main", "post" or "end"
  runCalls,      \* number of calls of run()
  cleanupCalls,  \* number of calls of cleanup()
  pc,            \* position of the running process
  failed,        \* failure status set by core.setFailed, per host step
  thrown,        \* kind of the value thrown by the failing step, or "none"
  fault,         \* why the failing step failed: "none", "env" or "sem"
  log,           \* every step executed so far, in order, with its outcome
  warnings,      \* number of core.warning calls
  infos,         \* number of core.info calls
  srcKind,       \* the source working tree: "absent" or "dir"
  srcHead,       \* revision checked out in the source working tree
  mb,            \* mergeBase computed by run(), EmptySha before that
  commitList,    \* commitList of run()
  idx,           \* number of entries of commitList the loop has taken
  msg,           \* revision named by the current commit message
  python,        \* python2Path of exportConf
  baseExported,  \* baseExportedCommit: mirror HEAD after the seed export
  lastExported,  \* lastExportedCommit: mirror HEAD after the loop
  mirror         \* the mirror path: kind, repo, wt, index, history

inputV == <<prPresent, merged, base, head, mirror0>>
hostV == <<phase, runCalls, cleanupCalls>>
ctlV == <<failed, thrown, fault>>
outV == <<warnings, infos>>
srcV == <<srcKind, srcHead>>
localV == <<mb, commitList, idx, msg, python, baseExported, lastExported>>

vars == <<inputV, hostV, pc, ctlV, log, outV, srcV, localV, mirror>>

ExportStamped(c) ==
  {<<"stamp", idx>>} \cup
  (IF c = Side THEN {<<"a", 1>>}
   ELSE IF c = Merge THEN {}
   ELSE IF c % 2 = 1 THEN {<<"a", c>>}
   ELSE {<<"a", c - 1>>, <<"b", c>>})

\* The transformer's output for the source tree checked out at revision c.
\* Outputs grow (1 -> 2), shrink (2 -> 3), repeat (1 -> Side) and may be empty
\* (Merge).
Export(c) ==
  IF c = Side THEN {<<"a", 1>>}
  ELSE IF c = Merge THEN {}
  ELSE IF c % 2 = 1 THEN {<<"a", c>>}
  ELSE {<<"a", c - 1>>, <<"b", c>>}

\* Values a failing step may throw: an Error instance, or anything else.
ThrowKinds == {"Error", "other"}

\* The mirror path before anything is created there.
AbsentMirror ==
  [kind |-> "absent", repo |-> FALSE, wt |-> {}, index |-> {}, history |-> <<>>]

\* A plain file at the mirror path.
FileMirror == [AbsentMirror EXCEPT !.kind = "file"]

\* An empty directory at the mirror path.
EmptyDirMirror == [AbsentMirror EXCEPT !.kind = "dir"]

\* The directory an earlier job left behind at the same path (same job name and
\* run number) after its seed export of revision 1.
LeftoverMirror ==
  [kind |-> "dir", repo |-> TRUE, wt |-> Export(1), index |-> Export(1),
   history |-> <<[tree |-> Export(1), msg |-> 1]>>]

MirrorStates == {AbsentMirror, FileMirror, EmptyDirMirror, LeftoverMirror}

Init ==
  /\ prPresent \in BOOLEAN
  /\ merged \in BOOLEAN
  /\ base \in Revs \cup {EmptySha}
  /\ head \in Revs \cup {EmptySha}
  /\ mirror0 \in MirrorStates
  /\ mirror = mirror0
  /\ phase = "main"
  /\ runCalls = 0
  /\ cleanupCalls = 0
  /\ pc = "entry"
  /\ failed = [p \in {"main", "post"} |-> FALSE]
  /\ thrown = "none"
  /\ fault = "none"
  /\ log = <<>>
  /\ warnings = 0
  /\ infos = 0
  /\ srcKind = "absent"
  /\ srcHead = EmptySha
  /\ mb = EmptySha
  /\ commitList = <<>>
  /\ idx = 0
  /\ msg = EmptySha
  /\ python = "none"
  /\ baseExported = 0
  /\ lastExported = 0

\* ------------------------------------------------------- control helpers

\* The step that follows op in run() when op returns normally.
Following(op) ==
  CASE op = "getInputs" -> "setup"
    [] op = "setup" -> "fetch"
    [] op = "fetch" -> "mergeBase"
    [] op = "mergeBase" -> "initExport"
    [] op = "initExport" -> "message"
    [] op = "message" -> "clear"
    [] op = "clear" -> "which"
    [] op = "which" -> "exec"
    [] op = "exec" -> "add"
    [] op = "add" -> "commit"
    [] op = "commit" -> "loop"
    [] op = "revParseBase" -> "commitList"
    [] op = "commitList" -> "loop"
    [] op = "checkout" -> "message"
    [] OTHER -> "exit"

AfterThrowContinue(op) == Following(op)

\* try { ... } catch: a throw leaves the try block, and run() returns.
AfterThrow(op) == "exit"

\* catch (error) { if (error instanceof Error) core.setFailed(error.message) }
CatchSetsFailed(kind) == kind = "Error"

\* A step returns normally.
Done(op, next) ==
  /\ log' = Append(log, [op |-> op, ok |-> TRUE])
  /\ pc' = next
  /\ UNCHANGED ctlV

\* A step inside the try block of run() throws.
Throw(op, kind, cause) ==
  /\ log' = Append(log, [op |-> op, ok |-> FALSE])
  /\ thrown' = kind
  /\ fault' = cause
  /\ failed' = [failed EXCEPT ![phase] = @ \/ CatchSetsFailed(kind)]
  /\ pc' = AfterThrow(op)

\* A step fails for an environmental reason.
EnvThrow(op) == \E kind \in ThrowKinds : Throw(op, kind, "env")

\* ------------------------------------------------------------ dispatch

DispatchAlwaysRun(isPost) == "run"

\* if (!stateHelper.IsPost) run() else cleanup()
Dispatch(isPost) == IF ~isPost THEN "run" ELSE "cleanup"

\* The process of the current host step starts.
ProcessStart ==
  /\ pc = "entry"
  /\ phase \in {"main", "post"}
  /\ LET entry == Dispatch(phase = "post") IN
       /\ pc' = IF entry = "run" THEN "checks" ELSE "cleanSource"
       /\ runCalls' = IF entry = "run" THEN runCalls + 1 ELSE runCalls
       /\ cleanupCalls' = IF entry = "cleanup" THEN cleanupCalls + 1 ELSE cleanupCalls
  /\ UNCHANGED <<inputV, phase, ctlV, log, outV, srcV, localV, mirror>>

\* The host runs the post step once the main step has ended.
HostPost ==
  /\ phase = "main"
  /\ pc = "exit"
  /\ phase' = "post"
  /\ pc' = "entry"
  /\ UNCHANGED <<inputV, runCalls, cleanupCalls, ctlV, log, outV, srcV, localV, mirror>>

\* The job ends when the post step has ended.
HostEnd ==
  /\ phase = "post"
  /\ pc = "exit"
  /\ phase' = "end"
  /\ UNCHANGED <<inputV, runCalls, cleanupCalls, pc, ctlV, log, outV, srcV, localV, mirror>>

\* ------------------------------------------------------------- run()

PreconditionMergedProceeds(prP, mrg, b, h) ==
  IF ~prP THEN "failed"
  ELSE IF b = EmptySha \/ h = EmptySha THEN "failed"
  ELSE "proceed"

PreconditionAbsentEarly(prP, mrg, b, h) ==
  IF ~prP \/ mrg THEN "early"
  ELSE IF b = EmptySha \/ h = EmptySha THEN "failed"
  ELSE "proceed"

\* The checks run() makes before its try block.
Precondition(prP, mrg, b, h) ==
  IF ~prP THEN "failed"
  ELSE IF mrg THEN "early"
  ELSE IF b = EmptySha THEN "failed"
  ELSE IF h = EmptySha THEN "failed"
  ELSE "proceed"

RunChecks ==
  /\ pc = "checks"
  /\ LET r == Precondition(prPresent, merged, base, head) IN
       /\ failed' = [failed EXCEPT ![phase] = @ \/ (r = "failed")]
       /\ infos' = IF r = "early" THEN infos + 1 ELSE infos
       /\ pc' = IF r = "proceed" THEN "getInputs" ELSE "exit"
  /\ UNCHANGED <<inputV, hostV, thrown, fault, log, warnings, srcV, localV, mirror>>

\* inputHelper.getInputs()
GetInputs ==
  /\ pc = "getInputs"
  /\ \/ Done("getInputs", "setup")
     \/ EnvThrow("getInputs")
  /\ UNCHANGED <<inputV, hostV, outV, srcV, localV, mirror>>

\* setupGitRepository: getSource with settings.commit = base, fetchDepth = 1.
SetupGitRepository ==
  /\ pc = "setup"
  /\ \/ /\ Done("setup", "fetch")
        /\ srcKind' = "dir"
        /\ srcHead' = base
     \/ /\ EnvThrow("setup")
        /\ UNCHANGED srcV
  /\ UNCHANGED <<inputV, hostV, outV, localV, mirror>>

\* confRepository.fetch([base, head], {})
Fetch ==
  /\ pc = "fetch"
  /\ \/ Done("fetch", "mergeBase")
     \/ EnvThrow("fetch")
  /\ UNCHANGED <<inputV, hostV, outV, srcV, localV, mirror>>

AncestryOkTrustsContext(m, b) == TRUE

\* if (mergeBase !== pr_context.base.sha) { setFailed; return }
AncestryOk(m, b) == m = b

\* confRepository.mergeBase(base, head), then the ancestry check.
MergeBase ==
  /\ pc = "mergeBase"
  /\ \/ LET m == GitMergeBase(base, head) IN
          /\ mb' = m
          /\ log' = Append(log, [op |-> "mergeBase", ok |-> TRUE])
          /\ pc' = IF AncestryOk(m, base) THEN "initExport" ELSE "exit"
          /\ failed' = [failed EXCEPT ![phase] = @ \/ ~AncestryOk(m, base)]
          /\ UNCHANGED <<thrown, fault>>
     \/ /\ EnvThrow("mergeBase")
        /\ UNCHANGED mb
  /\ UNCHANGED <<inputV, hostV, outV, srcV, commitList, idx, msg, python,
                 baseExported, lastExported, mirror>>

\* fsHelper.fileExistsSync(path): the path exists and is not a directory.
FileExistsSync(m) == m.kind = "file"

\* fsHelper.directoryExistsSync(path): the path exists and is a directory.
DirectoryExistsSync(m) == m.kind = "dir"

\* if (fileExistsSync(path)) await io.rmRF(path)
RemoveConflicting(m) == IF FileExistsSync(m) THEN AbsentMirror ELSE m

\* if (!directoryExistsSync(path)) await io.mkdirP(path)
CreateDirectory(m) == IF ~DirectoryExistsSync(m) THEN EmptyDirMirror ELSE m

\* git init: creates an empty repository, or re-initialises the existing one,
\* which keeps its index and its history.
GitInit(m) == IF m.repo THEN m ELSE [m EXCEPT !.repo = TRUE]

\* initExportRepo(): the three steps in order; a failure leaves what the steps
\* before it did.
InitExportRepo ==
  /\ pc = "initExport"
  /\ \/ /\ Done("initExport", "message")
        /\ mirror' = GitInit(CreateDirectory(RemoveConflicting(mirror)))
     \/ /\ EnvThrow("initExport")
        /\ mirror' \in {mirror, RemoveConflicting(mirror),
                        CreateDirectory(RemoveConflicting(mirror))}
  /\ UNCHANGED <<inputV, hostV, outV, srcV, localV>>

\* getPrettyCommitMessage: rev-parse --abbrev-ref HEAD and log --oneline -1 in
\* the source tree name the revision checked out there.
GetPrettyCommitMessage ==
  /\ pc = "message"
  /\ \/ /\ Done("message", "clear")
        /\ msg' = srcHead
     \/ /\ EnvThrow("message")
        /\ UNCHANGED msg
  /\ UNCHANGED <<inputV, hostV, outV, srcV, mb, commitList, idx, python,
                 baseExported, lastExported, mirror>>

\* git rm --force -r -- '*': every tracked file leaves the index and the
\* working tree; untracked files stay.
ClearTracked(m) ==
  [m EXCEPT !.wt = {f \in m.wt : f[1] \notin Names(m.index)}, !.index = {}]

\* exportConf, "Remove previously exported configuration".  The pathspec '*'
\* must match a tracked file, or git rm fails.
ExportClear ==
  /\ pc = "clear"
  /\ \/ /\ mirror.index # {}
        /\ Done("clear", "which")
        /\ mirror' = ClearTracked(mirror)
     \/ /\ mirror.index = {}
        /\ Throw("clear", "Error", "sem")
        /\ UNCHANGED mirror
     \/ /\ EnvThrow("clear")
        /\ UNCHANGED mirror
  /\ UNCHANGED <<inputV, hostV, outV, srcV, localV>>

\* exportConf, "Find Python2 exe": python2, else python, else the error of the
\* second io.which leaves exportConf.
ExportWhich ==
  /\ pc = "which"
  /\ \/ /\ Done("which", "exec")
        /\ python' = "python2"
     \/ /\ log' = log \o <<[op |-> "which2", ok |-> FALSE], [op |-> "which", ok |-> TRUE]>>
        /\ pc' = "exec"
        /\ python' = "python"
        /\ UNCHANGED ctlV
     \/ /\ EnvThrow("which")
        /\ UNCHANGED python
  /\ UNCHANGED <<inputV, hostV, outV, srcV, mb, commitList, idx, msg,
                 baseExported, lastExported, mirror>>

\* exportConf, "Run exporter": the transformer reads the source tree (cwd) and
\* writes its output into the mirror working tree.  A failing transformer may
\* have written its output or not.
ExportExec ==
  /\ pc = "exec"
  /\ \/ /\ Done("exec", "add")
        /\ mirror' = [mirror EXCEPT !.wt = WriteFiles(@, Export(srcHead))]
     \/ /\ EnvThrow("exec")
        /\ mirror' \in {mirror, [mirror EXCEPT !.wt = WriteFiles(@, Export(srcHead))]}
  /\ UNCHANGED <<inputV, hostV, outV, srcV, localV>>

\* exportConf, "Add exported configuration": git add --force -- '*' stages the
\* working tree; the pathspec must match something.
ExportAdd ==
  /\ pc = "add"
  /\ \/ /\ mirror.wt \cup mirror.index # {}
        /\ Done("add", "commit")
        /\ mirror' = [mirror EXCEPT !.index = mirror.wt]
     \/ /\ mirror.wt \cup mirror.index = {}
        /\ Throw("add", "Error", "sem")
        /\ UNCHANGED mirror
     \/ /\ EnvThrow("add")
        /\ UNCHANGED mirror
  /\ UNCHANGED <<inputV, hostV, outV, srcV, localV>>

\* The tree of the mirror's HEAD commit; the empty tree before the first commit.
HeadTree(m) == IF m.history = <<>> THEN {} ELSE m.history[Len(m.history)].tree

\* exportConf, "Commit exported configuration": git commit -m message fails
\* when the index equals the tree of HEAD (nothing to commit).
ExportCommit ==
  /\ pc = "commit"
  /\ \/ /\ mirror.index # HeadTree(mirror)
        /\ Done("commit", IF idx = 0 THEN "revParseBase" ELSE "loop")
        /\ mirror' = [mirror EXCEPT
                        !.history = Append(@, [tree |-> mirror.index, msg |-> msg])]
     \/ /\ mirror.index = HeadTree(mirror)
        /\ Throw("commit", "Error", "sem")
        /\ UNCHANGED mirror
     \/ /\ EnvThrow("commit")
        /\ UNCHANGED mirror
  /\ UNCHANGED <<inputV, hostV, outV, srcV, localV>>

\* baseExportedCommit = await exportRepository.revParse('HEAD')
RevParseBase ==
  /\ pc = "revParseBase"
  /\ \/ /\ Done("revParseBase", "commitList")
        /\ baseExported' = Len(mirror.history)
     \/ /\ EnvThrow("revParseBase")
        /\ UNCHANGED baseExported
  /\ UNCHANGED <<inputV, hostV, outV, srcV, mb, commitList, idx, msg, python,
                 lastExported, mirror>>

\* commitList = await getCommitList(confRepository, base, head)
GetCommitList ==
  /\ pc = "commitList"
  /\ \/ /\ Done("commitList", "loop")
        /\ commitList' = CommitListOf(base, head)
     \/ /\ EnvThrow("commitList")
        /\ UNCHANGED commitList
  /\ UNCHANGED <<inputV, hostV, outV, srcV, mb, idx, msg, python,
                 baseExported, lastExported, mirror>>

AfterCheckoutExport == "clear"

\* In the loop body the commit message is derived right after the checkout.
AfterCheckout == "message"

\* for (const commit of commitList) { await confRepository.checkout(commit, '')
\* git checkout fails on the empty string.
Checkout ==
  /\ pc = "loop"
  /\ idx < Len(commitList)
  /\ idx' = idx + 1
  /\ LET commit == commitList[idx + 1] IN
       \/ /\ commit # EmptySha
          /\ Done("checkout", AfterCheckout)
          /\ srcHead' = commit
       \/ /\ commit = EmptySha
          /\ Throw("checkout", "Error", "sem")
          /\ UNCHANGED srcHead
       \/ /\ EnvThrow("checkout")
          /\ UNCHANGED srcHead
  /\ UNCHANGED <<inputV, hostV, outV, srcKind, mb, commitList, msg, python,
                 baseExported, lastExported, mirror>>

\* After the loop: lastExportedCommit = revParse('HEAD'), core.info, return.
RevParseLast ==
  /\ pc = "loop"
  /\ idx = Len(commitList)
  /\ \/ /\ Done("revParseLast", "exit")
        /\ lastExported' = Len(mirror.history)
        /\ infos' = infos + 1
     \/ /\ EnvThrow("revParseLast")
        /\ UNCHANGED <<lastExported, infos>>
  /\ UNCHANGED <<inputV, hostV, warnings, srcV, mb, commitList, idx, msg, python,
                 baseExported, mirror>>

\* ------------------------------------------------------------ cleanup()

\* gitSourceProvider.cleanup(path) removes the working tree at path.
ProviderCleanup(m) == AbsentMirror

AfterSourceCleanupFailureEscapes == "exit"

\* The first try/catch of cleanup(): the error is caught, warned about, and
\* cleanup() goes on with the mirror.
AfterSourceCleanupFailure == "cleanMirror"

\* try { await gitSourceProvider.cleanup(stateHelper.RepositoryPath) } catch
CleanupSource ==
  /\ pc = "cleanSource"
  /\ \/ /\ log' = Append(log, [op |-> "cleanSource", ok |-> TRUE])
        /\ srcKind' = "absent"
        /\ srcHead' = EmptySha
        /\ pc' = "cleanMirror"
        /\ UNCHANGED warnings
     \/ /\ log' = Append(log, [op |-> "cleanSource", ok |-> FALSE])
        /\ warnings' = warnings + 1
        /\ pc' = AfterSourceCleanupFailure
        /\ UNCHANGED srcV
  /\ UNCHANGED <<inputV, hostV, ctlV, infos, localV, mirror>>

\* try { await gitSourceProvider.cleanup(EXPORT_REPOSITORY_PATH) } catch
CleanupMirror ==
  /\ pc = "cleanMirror"
  /\ \/ /\ log' = Append(log, [op |-> "cleanMirror", ok |-> TRUE])
        /\ mirror' = ProviderCleanup(mirror)
        /\ UNCHANGED warnings
     \/ /\ log' = Append(log, [op |-> "cleanMirror", ok |-> FALSE])
        /\ warnings' = warnings + 1
        /\ UNCHANGED mirror
  /\ pc' = "exit"
  /\ UNCHANGED <<inputV, hostV, ctlV, infos, srcV, localV>>

\* ---------------------------------------------------------- specification

Next ==
  \/ ProcessStart
  \/ HostPost
  \/ HostEnd
  \/ RunChecks
  \/ GetInputs
  \/ SetupGitRepository
  \/ Fetch
  \/ MergeBase
  \/ InitExportRepo
  \/ GetPrettyCommitMessage
  \/ ExportClear
  \/ ExportWhich
  \/ ExportExec
  \/ ExportAdd
  \/ ExportCommit
  \/ RevParseBase
  \/ GetCommitList
  \/ Checkout
  \/ RevParseLast
  \/ CleanupSource
  \/ CleanupMirror

Spec == Init /\ [][Next]_vars

\* ------------------------------------------------------------ vocabulary

\* Steps that touch the mirror repository or export a snapshot.
ExportOps == {"initExport", "clear", "which2", "which", "exec", "add", "commit"}

\* Steps of run().
RunOps ==
  ExportOps \cup {"getInputs", "setup", "fetch", "mergeBase", "message",
                  "revParseBase", "commitList", "checkout", "revParseLast"}

LogOps == {log[i].op : i \in 1..Len(log)}

Happened(op) == \E i \in 1..Len(log) : log[i] = [op |-> op, ok |-> TRUE]

\* run() has returned in the main step.
RunEnded == phase = "main" /\ pc = "exit"

\* run() has returned after its last step, no step having failed.
RunSucceeded == RunEnded /\ Happened("revParseLast")

\* base lies on the first-parent chain of head.
IsFirstParentAncestor(b, h) ==
  /\ b \in Revs
  /\ h \in Revs
  /\ \E i \in 1..Len(FirstParentChain(h)) : FirstParentChain(h)[i] = b

\* The first-parent chain from b (excluded) to h (included), oldest first.
FirstParentPath(b, h) ==
  LET chain == FirstParentChain(h)
      at == CHOOSE i \in 1..Len(chain) : chain[i] = b
  IN SubSeq(chain, at + 1, Len(chain))

\* ----------------------------------------------------------------- C1

\* C1: when the merge base run() computed differs from base, nothing is
\* exported: no step of initExportRepo or exportConf ever runs, and run()
\* leaves the mirror path as it found it, without a new commit.
C1_AbortBeforeExport ==
  (mb # EmptySha /\ mb # base) =>
     /\ LogOps \cap ExportOps = {}
     /\ phase = "main" => mirror = mirror0
     /\ Len(mirror.history) <= Len(mirror0.history)

\* run() has returned with the failure status after a merge base other than base.
C1_Witness == RunEnded /\ mb # EmptySha /\ mb # base /\ failed["main"]

\* ----------------------------------------------------------------- C2

C4_CommitListIsFirstParentPath ==
  IsFirstParentAncestor(base, head) =>
     /\ mb # EmptySha => AncestryOk(mb, base)
     /\ Happened("commitList") => commitList = FirstParentPath(base, head)

\* ----------------------------------------------------------------- C5

\* C5: when base equals head, getCommitList returns the empty sequence, the
\* loop makes no checkout, and a run that no environmental failure stops ends
\* successfully with one commit in the mirror history.
C5_BaseEqualsHead ==
  (base = head /\ Happened("commitList")) =>
     /\ commitList = <<>>
     /\ "checkout" \notin LogOps
     /\ (RunEnded /\ fault # "env") =>
           /\ ~failed["main"]
           /\ Len(mirror.history) = 1

\* ----------------------------------------------------------------- C6

\* C6: once a step of run() has failed, no later step of run() is executed:
\* in the log, a failed step of run() is followed by no step of run().  (The
\* lookup of python2 is no step of its own: exportConf falls back to python.)
C6_AbortOnFirstFailure ==
  \A i \in 1..Len(log) :
     (log[i].op \in RunOps \ {"which2"} /\ ~log[i].ok) =>
        \A j \in (i + 1)..Len(log) : log[j].op \notin RunOps

\* run() has returned after a step failed in the loop, with commits made.
C6_Witness ==
  /\ RunEnded
  /\ thrown # "none"
  /\ idx >= 1
  /\ Len(mirror.history) > Len(mirror0.history)

\* ----------------------------------------------------------------- C7

\* C7: whatever a failing step throws, run() ends with the failure status set.
C7_FailureSetsStatus == (RunEnded /\ thrown # "none") => failed["main"]

\* ----------------------------------------------------------------- C8

\* The positions of the log holding a step of cleanup().
CleanupAt(op) == {i \in 1..Len(log) : log[i].op = op}

\* C8: cleanup() is called at most once and only after run() has returned;
\* when the job has ended it was called exactly once, run() exactly once, and
\* it attempted the source tree and the mirror tree once each, after every
\* step of run().
C8_TeardownOnce ==
  /\ cleanupCalls <= 1
  /\ cleanupCalls = 1 => (phase # "main" /\ runCalls = 1)
  /\ phase = "end" =>
        /\ cleanupCalls = 1
        /\ runCalls = 1
        /\ Cardinality(CleanupAt("cleanSource")) = 1
        /\ Cardinality(CleanupAt("cleanMirror")) = 1
        /\ \A i \in 1..Len(log) : \A j \in CleanupAt("cleanSource") :
              log[i].op \in RunOps => i < j

\* The job has ended after a run in which a step threw.
C8_Witness == phase = "end" /\ thrown # "none" /\ cleanupCalls = 1

\* ----------------------------------------------------------------- C9

\* Number of failed cleanup steps in the log.
CleanupFailures ==
  Cardinality({i \in 1..Len(log) :
                 log[i].op \in {"cleanSource", "cleanMirror"} /\ ~log[i].ok})

\* C9: a failed removal is a warning and nothing else: every failed removal
\* is one warning, the post step never sets the failure status, and once
\* cleanup() has returned the mirror removal was attempted, whether the source
\* removal failed or not.
C9_TeardownBestEffort ==
  /\ warnings = CleanupFailures
  /\ ~failed["post"]
  /\ (phase = "post" /\ pc = "exit") => CleanupAt("cleanMirror") # {}

\* cleanup() has returned after the source removal failed and the mirror
\* removal was attempted.
C9_Witness ==
  /\ phase = "post"
  /\ pc = "exit"
  /\ \E i \in CleanupAt("cleanSource") : ~log[i].ok
  /\ CleanupAt("cleanMirror") # {}

\* ---------------------------------------------------------------- C10

\* C10: for a merged pull request run() does nothing and does not fail: no
\* step is executed, the source tree is not acquired, the mirror path is
\* untouched, the failure status stays unset, and one info line is written.
C10_MergedEarlyOut ==
  (prPresent /\ merged /\ phase = "main") =>
     /\ log = <<>>
     /\ srcKind = "absent"
     /\ mirror = mirror0
     /\ ~failed["main"]
     /\ pc \in {"entry", "checks", "exit"}
     /\ pc = "exit" => infos = 1

\* run() has returned for a merged pull request.
C10_Witness == prPresent /\ merged /\ RunEnded

\* ------------------------------------------------- supporting invariants

\* The commits a successful run appends to the history it found: one per
\* exported revision, base first, each with the tree and the message of its
\* revision.
AppendedCommitsMatch ==
  RunSucceeded =>
     LET old == Len(mirror0.history) IN
       /\ Len(mirror.history) = old + 1 + Len(commitList)
       /\ mirror.history[old + 1] = [tree |-> Export(base), msg |-> base]
       /\ \A i \in 1..Len(commitList) :
            mirror.history[old + 1 + i] =
              [tree |-> Export(commitList[i]), msg |-> commitList[i]]

\* For base other than head, getCommitList returns the first-parent path.
CommitListOfDistinctEnds ==
  (IsFirstParentAncestor(base, head) /\ base # head /\ Happened("commitList")) =>
     commitList = FirstParentPath(base, head)

\* A run succeeds only on a mirror directory that was already a repository.
SuccessNeedsLeftover == RunSucceeded => mirror0.repo

\* ---------------------------------------------------------------- C11

\* C11 as stated: without a pull request context run() ends like the merged
\* case, with an info line and without the failure status.
C11_AbsentContextNotFailure ==
  (~prPresent /\ RunEnded) => (~failed["main"] /\ infos = 1)

\* C11 as amended: without a pull request context run() does nothing and
\* ends with the failure status set and no info line: no step is executed,
\* the source tree is not acquired and the mirror path is untouched.
C11_AbsentContextFails ==
  (~prPresent /\ phase = "main") =>
     /\ log = <<>>
     /\ srcKind = "absent"
     /\ mirror = mirror0
     /\ infos = 0
     /\ pc \in {"entry", "checks", "exit"}
     /\ pc = "exit" => failed["main"]

\* run() has returned without a pull request context.
C11_Witness == ~prPresent /\ RunEnded /\ failed["main"]

\* ---------------------------------------------------------------- C12

\* C12: when base is not on the first-parent chain of head, run() does not
\* initialise the mirror and exports nothing.
C12_FirstParentOnly ==
  (base \in Revs /\ head \in Revs /\ ~IsFirstParentAncestor(base, head)) =>
     /\ LogOps \cap ExportOps = {}
     /\ phase = "main" => mirror = mirror0

\* ---------------------------------------------------------------- C14

\* C14: when initExportRepo has returned, the mirror is a fresh repository:
\* no file in its working tree, nothing tracked, no commit.
C14_FreshMirror ==
  (pc = "message" /\ idx = 0 /\ Happened("initExport")) =>
     /\ mirror.kind = "dir"
     /\ mirror.repo
     /\ mirror.wt = {}
     /\ mirror.index = {}
     /\ mirror.history = <<>>

\* ---------------------------------------------------------------- C17

\* C17: on a freshly initialised mirror (nothing tracked) the clear step of
\* the seed export does not fail unless the environment makes it fail.
C17_SeedClearSucceeds ==
  \A i \in 1..Len(log) :
     (log[i] = [op |-> "clear", ok |-> FALSE] /\ idx = 0 /\ mirror.index = {}) =>
        fault = "env"

\* ---------------------------------------------------------------- C15

\* The revision the export in progress is for: base for the seed, the
\* loop's current entry otherwise.
CurrentRevision == IF idx = 0 THEN base ELSE commitList[idx]

\* C15: while an export is in progress the source tree is checked out at the
\* revision being exported and the commit message names that revision; the
\* message was derived right before the export started and, in the loop,
\* right after the checkout; so every commit run() created has the tree the
\* transformer produced for the revision its message names.
C15_MessageNamesExportedRevision ==
  /\ pc \in {"clear", "which", "exec", "add", "commit"} =>
        /\ srcHead = CurrentRevision
        /\ msg = srcHead
  /\ \A i \in 1..Len(log) :
        /\ log[i].op = "clear" =>
              (i > 1 /\ log[i - 1] = [op |-> "message", ok |-> TRUE])
        /\ (log[i].op = "message" /\ "checkout" \in {log[j].op : j \in 1..i}) =>
              log[i - 1] = [op |-> "checkout", ok |-> TRUE]
  /\ phase = "main" =>
        \A i \in (Len(mirror0.history) + 1)..Len(mirror.history) :
           mirror.history[i].tree = Export(mirror.history[i].msg)

\* A commit was created for a revision of the loop.
C15_Witness ==
  /\ phase = "main"
  /\ idx >= 1
  /\ pc = "loop"
  /\ Len(mirror.history) >= Len(mirror0.history) + 2
  /\ mirror.history[Len(mirror.history)].msg = commitList[idx]

\* ---------------------------------------------------------------- C16

\* The trees of a history, in order.
Trees(history) == [i \in 1..Len(history) |-> history[i].tree]

\* The exports of base and of the enumerated revisions, in order.
ExpectedTrees ==
  <<Export(base)>> \o
  [i \in 1..Len(GitRevList(base, head)) |-> Export(GitRevList(base, head)[i])]

IsPrefix(s, t) == Len(s) <= Len(t) /\ s = SubSeq(t, 1, Len(s))

\* C16: once the mirror is initialised, in every state of the run the mirror
\* history is a prefix of the exports of base, r_1, ..., r_n.
C16_HistoryIsPrefix ==
  (phase = "main" /\ Happened("initExport")) =>
     IsPrefix(Trees(mirror.history), ExpectedTrees)

\* In every state of the run the commits added to the history the run found
\* are a prefix of the exports of base, r_1, ..., r_n.
AppendedHistoryIsPrefix ==
  (phase = "main" /\ base \in Revs /\ head \in Revs) =>
     LET old == Len(mirror0.history) IN
       /\ Len(mirror.history) >= old
       /\ SubSeq(mirror.history, 1, old) = mirror0.history
       /\ IsPrefix(Trees(SubSeq(mirror.history, old + 1, Len(mirror.history))),
                   ExpectedTrees)

\* When an export starts with tracked files, nothing in the mirror working
\* tree is untracked.
ClearFindsCleanTree ==
  (pc = "clear" /\ mirror.index # {}) => mirror.wt = mirror.index

\* ------------------------------------------ exportConf called twice (C13)

\* The mirror states in which run() calls exportConf: a freshly initialised
\* repository, or a repository whose last commit is an earlier export, with
\* a clean working tree.
ExportEntryMirrors ==
  {[EmptyDirMirror EXCEPT !.repo = TRUE]} \cup
  {[kind |-> "dir", repo |-> TRUE, wt |-> Export(r), index |-> Export(r),
    history |-> <<[tree |-> Export(r), msg |-> r]>>] :
     r \in {x \in Revs : Export(x) # {}}}

\* exportConf is about to be called for the revision checked out in the
\* source tree, with the message of that revision.
InitTwice ==
  /\ idx = 0
  /\ prPresent = TRUE
  /\ merged = FALSE
  /\ srcHead \in Revs
  /\ srcKind = "dir"
  /\ base = srcHead
  /\ head = srcHead
  /\ mb = srcHead
  /\ msg = srcHead
  /\ mirror0 \in ExportEntryMirrors
  /\ mirror = mirror0
  /\ phase = "main"
  /\ runCalls = 1
  /\ cleanupCalls = 0
  /\ pc = "clear"
  /\ failed = [p \in {"main", "post"} |-> FALSE]
  /\ thrown = "none"
  /\ fault = "none"
  /\ log = <<>>
  /\ warnings = 0
  /\ infos = 0
  /\ commitList = <<>>
  /\ python = "none"
  /\ baseExported = 0
  /\ lastExported = 0

\* The first call has returned: exportConf is called again with the same
\* arguments, the source tree and the mirror left as they are.
ExportAgain ==
  /\ pc = "revParseBase"
  /\ idx = 0
  /\ idx' = 1
  /\ baseExported' = Len(mirror.history)
  /\ pc' = "clear"
  /\ UNCHANGED <<inputV, hostV, ctlV, log, outV, srcV, mb, commitList, msg,
                 python, lastExported, mirror>>

NextTwice ==
  \/ ExportClear
  \/ ExportWhich
  \/ ExportExec
  \/ ExportAdd
  \/ ExportCommit
  \/ ExportAgain

SpecTwice == InitTwice /\ [][NextTwice]_vars

\* ---------------------------------------------------------------- C13

SecondExportNeverCommits ==
  idx = 1 => Len(mirror.history) <= baseExported

=============================================================================
